---- MODULE Spec2Model ----
(***************************************************************************)
(* Model of the OBJ mesh loader of bevy_obj (src/src/loader.rs).           *)
(*                                                                         *)
(* One conversion is load_obj_from_bytes: raw parse, the classifier loop   *)
(* that computes the tier `pnt`, the typed re-projection obj::Obj::new at  *)
(* that tier, and the four writes into the mesh.  load_obj wraps it with a *)
(* fresh mesh and registers the mesh with the load context on success.     *)
(*                                                                         *)
(* Numbers: f32 values are modelled by integers, on which `1.0 - x` is     *)
(* exact, as it is on the corresponding floats.  Indices are 0-based as in *)
(* the code; TLA+ sequences are 1-based, so table lookups add one.         *)
(*                                                                         *)
(* The obj crate is a dependency, not part of the repository's sources.    *)
(* parse_obj is modelled by its result (the byte buffer is abstracted to   *)
(* what the raw parser makes of it); Obj::new is modelled after the        *)
(* crate's FromRawVertex implementations for Position, Vertex and          *)
(* TexturedVertex, at the three places the loader calls it.                *)
(***************************************************************************)
EXTENDS Integers, Sequences, FiniteSets, TLC

VARIABLES
    bytes,         \* the input byte buffer (abstracted to its raw parse)
    pc,            \* position inside load_obj / load_obj_from_bytes
    caller,        \* "load_obj" or "direct": who called load_obj_from_bytes
    raw,           \* the raw object returned by parse_obj
    pnt,           \* the tier (loader.rs:53)
    i,             \* position of the classifier loop in raw.polygons
    obj,           \* the typed object returned by Obj::new
    mesh,          \* the mesh sink: attribute slots and the index slot
    mesh0,         \* the mesh as it was when load_obj_from_bytes was entered
    writes,        \* slots written by the current call, in order
    result,        \* what load_obj_from_bytes returned
    load_context,  \* the LoadContext of the current load_obj call
    load_result,   \* what load_obj returned
    prev           \* outcome of the previous conversion of the same bytes

vars == <<bytes, pc, caller, raw, pnt, i, obj, mesh, mesh0, writes, result,
          load_context, load_result, prev>>

----------------------------------------------------------------------------
(* Bounds of the model. *)

MaxPolys == 2
NumPos == 3
NumNormals == 2
NumTex == 3

----------------------------------------------------------------------------
(* Option and Result values. *)

None == <<>>
Some(x) == <<x>>

Ok == [ok |-> TRUE, variant |-> "", inner |-> ""]
Err(variant, inner) == [ok |-> FALSE, variant |-> variant, inner |-> inner]
NoResult == [ok |-> FALSE, variant |-> "pending", inner |-> ""]

\* ObjError::Gltf(#[from] obj::ObjError): what `?` makes of a parser error
Gltf(e) == Err("Gltf", e)
UnknownVertexFormat == Err("UnknownVertexFormat", "")

----------------------------------------------------------------------------
(* The input: raw objects as the raw parser produces them. *)

\* The vertex data tables of the file: v, vn and vt lines.
\* (x, y, z, w) per v line; (x, y, z) per vn line; (u, v, w) per vt line
Positions == [k \in 1..NumPos |-> <<k, 10 + k, 20 + k, 1>>]
Normals == [k \in 1..NumNormals |-> <<-k, 0, k>>]
TexCoords == [k \in 1..NumTex |-> <<30 + k, k - 1, 40 + k>>]

Kinds == {"P", "PT", "PN", "PTN"}

\* Corner c (0-based) of a face that starts at position s: the index tuple
\* the raw parser stores for the face's variant.
Corner(kind, s, c) ==
    LET pi == (s + c) % NumPos
        ti == (s + c) % NumTex
        ni == s % NumNormals
    IN  CASE kind = "P" -> <<pi>>
          [] kind = "PT" -> <<pi, ti>>
          [] kind = "PN" -> <<pi, ni>>
          [] kind = "PTN" -> <<pi, ti, ni>>

Polygon(kind, s, n) == [kind |-> kind, v |-> [c \in 1..n |-> Corner(kind, s, c - 1)]]

\* Triangles starting at every position, and one quad per variant.
Polygons ==
    {Polygon(kind, s, 3) : kind \in Kinds, s \in 0..(NumPos - 1)}
        \cup {Polygon(kind, 0, 4) : kind \in Kinds}

PolygonSeqs == UNION {[1..n -> Polygons] : n \in 0..MaxPolys}

RawObj(polygons) ==
    [positions |-> Positions, tex_coords |-> TexCoords, normals |-> Normals,
     polygons |-> polygons]

EmptyRaw == RawObj(<<>>)

ParseErrors == {"ParseFloat", "WrongNumberOfArguments"}

\* A byte buffer is abstracted to the outcome of the raw parse on it.
Bytes ==
    {[parse |-> "ok", raw |-> RawObj(ps)] : ps \in PolygonSeqs}
        \cup {[parse |-> e, raw |-> EmptyRaw] : e \in ParseErrors}

\* obj::raw::parse_obj(bytes)
parse_obj(b) ==
    IF b.parse = "ok" THEN [ok |-> TRUE, raw |-> b.raw, err |-> ""]
                      ELSE [ok |-> FALSE, raw |-> EmptyRaw, err |-> b.parse]

----------------------------------------------------------------------------
(* The classifier (loader.rs:53-61). *)

Min(a, b) == IF a < b THEN a ELSE b

\* Mutant: the arms assign the tier instead of taking the minimum.
MatchPolygon_Assign(t, polygon) ==
    CASE polygon.kind = "P" -> 1
      [] polygon.kind = "PN" -> 2
      [] OTHER -> t

\* Mutant: the arms number the tiers from 0.
MatchPolygon_ZeroBased(t, polygon) ==
    CASE polygon.kind = "P" -> Min(t, 0)
      [] polygon.kind = "PN" -> Min(t, 1)
      [] OTHER -> t

\* One iteration of the loop: the match on the polygon's variant.
MatchPolygon(t, polygon) ==
    CASE polygon.kind = "P" -> Min(t, 1)
      [] polygon.kind = "PN" -> Min(t, 2)
      [] OTHER -> t

\* The whole loop, from `let mut pnt = 3`.
RECURSIVE ClassifyFrom(_, _)
ClassifyFrom(t, polygons) ==
    IF polygons = <<>> THEN t
    ELSE ClassifyFrom(MatchPolygon(t, Head(polygons)), Tail(polygons))

Classify(polygons) == ClassifyFrom(3, polygons)

----------------------------------------------------------------------------
(* The typed re-projection obj::Obj::new(raw) at the three vertex shapes. *)

\* position: [p.0, p.1, p.2] of a raw (x, y, z, w)
Xyz(p) == <<p[1], p[2], p[3]>>

RECURSIVE Flatten(_)
Flatten(polygons) ==
    IF polygons = <<>> THEN <<>>
    ELSE Head(polygons).v \o Flatten(Tail(polygons))

IndexOf(seq, x) == CHOOSE k \in 1..Len(seq) : seq[k] = x

\* The vertex cache: each distinct key gets the next vertex slot on first
\* sight; every corner pushes its key's slot onto the index list.
RECURSIVE Dedup(_, _, _)
Dedup(keys, vb, ib) ==
    IF keys = <<>> THEN [vb |-> vb, ib |-> ib]
    ELSE LET key == Head(keys)
         IN  IF \E k \in 1..Len(vb) : vb[k] = key
             THEN Dedup(Tail(keys), vb, Append(ib, IndexOf(vb, key) - 1))
             ELSE Dedup(Tail(keys), Append(vb, key), Append(ib, Len(vb)))

\* The first polygon the conversion loop rejects decides the error.
RECURSIVE FirstError(_, _)
FirstError(polygons, insufficient) ==
    IF polygons = <<>> THEN ""
    ELSE IF Head(polygons).kind \in insufficient THEN "InsufficientData"
    ELSE IF Len(Head(polygons).v) # 3 THEN "UntriangulatedModel"
    ELSE FirstError(Tail(polygons), insufficient)

ObjOk(vertices, indices) == [ok |-> TRUE, err |-> "", vertices |-> vertices, indices |-> indices]
ObjErr(e) == [ok |-> FALSE, err |-> e, vertices |-> <<>>, indices |-> <<>>]
NoObj == ObjErr("pending")

\* obj::Obj::<Position, u32>::new: every position is a vertex; any triangle
\* contributes its position indices.
NewPosition(r) ==
    LET e == FirstError(r.polygons, {})
        keys == Flatten(r.polygons)
    IN  IF e # "" THEN ObjErr(e)
        ELSE ObjOk([k \in 1..Len(r.positions) |-> [position |-> Xyz(r.positions[k])]],
                   [k \in 1..Len(keys) |-> keys[k][1]])

\* obj::Obj::<Vertex, u32>::new: vertices are the distinct (position, normal)
\* pairs; faces without normals are rejected.
NewVertex(r) ==
    LET e == FirstError(r.polygons, {"P", "PT"})
        corners == Flatten(r.polygons)
        keys == [k \in 1..Len(corners) |->
                    <<corners[k][1], corners[k][Len(corners[k])]>>]
        d == Dedup(keys, <<>>, <<>>)
    IN  IF e # "" THEN ObjErr(e)
        ELSE ObjOk([k \in 1..Len(d.vb) |->
                       [position |-> Xyz(r.positions[d.vb[k][1] + 1]),
                        normal |-> r.normals[d.vb[k][2] + 1]]],
                   d.ib)

\* obj::Obj::<TexturedVertex, u32>::new: vertices are the distinct
\* (position, texture, normal) triples; only full faces are accepted.
NewTexturedVertex(r) ==
    LET e == FirstError(r.polygons, {"P", "PT", "PN"})
        keys == Flatten(r.polygons)
        d == Dedup(keys, <<>>, <<>>)
    IN  IF e # "" THEN ObjErr(e)
        ELSE ObjOk([k \in 1..Len(d.vb) |->
                       [position |-> Xyz(r.positions[d.vb[k][1] + 1]),
                        normal |-> r.normals[d.vb[k][3] + 1],
                        texture |-> r.tex_coords[d.vb[k][2] + 1]]],
                   d.ib)

----------------------------------------------------------------------------
(* The mesh sink (bevy Mesh): three attribute slots and the index slot. *)

\* Mesh::new(PrimitiveTopology::TriangleList): no attribute, no indices
NewMesh == [position |-> None, normal |-> None, uv |-> None, indices |-> None]

\* A mesh that already holds data from elsewhere.
StaleMesh ==
    [position |-> Some(<< <<7, 7, 7>>, <<7, 7, 7>> >>),
     normal |-> Some(<< <<8, 8, 8>> >>),
     uv |-> Some(<< <<9, 9, 9>> >>),
     indices |-> Some(<<0, 0, 0>>)]

\* What a caller of load_obj_from_bytes may pass besides the mesh at hand
\* (which is a new mesh before the first conversion).
PriorMeshes == {StaleMesh}

set_position_data(m, data) == [m EXCEPT !.position = Some(data)]
set_normal_data(m, data) == [m EXCEPT !.normal = Some(data)]
\* Mutant: the UV slot is written only when the mesh has none.
set_uv_data_KeepExisting(m, data) ==
    IF m.uv = None THEN [m EXCEPT !.uv = Some(data)] ELSE m

set_uv_data(m, data) == [m EXCEPT !.uv = Some(data)]

\* obj.indices.iter().map(|i| *i as u32).collect(): u32 to u32, in order
set_mesh_indices(m, o) ==
    [m EXCEPT !.indices = Some([k \in 1..Len(o.indices) |-> o.indices[k]])]

----------------------------------------------------------------------------
(* The per-tier buffers of the match arms (loader.rs:64-91). *)

Zeros(o) == [k \in 1..Len(o.vertices) |-> <<0, 0, 0>>]

PositionData(tier, o) == [k \in 1..Len(o.vertices) |-> o.vertices[k].position]

\* Mutant: the tier 1 arm copies the positions into the normal buffer.
NormalData_CopyPosition(tier, o) ==
    IF tier = 1 THEN [k \in 1..Len(o.vertices) |-> o.vertices[k].position]
    ELSE [k \in 1..Len(o.vertices) |-> o.vertices[k].normal]

\* Mutant: every arm synthesizes the normals.
NormalData_Zero(tier, o) == Zeros(o)

NormalData(tier, o) ==
    IF tier = 1 THEN Zeros(o)
    ELSE [k \in 1..Len(o.vertices) |-> o.vertices[k].normal]

\* Mutant: the texture coordinate is passed through.
FlipUv_NoFlip(t) == <<t[1], t[2], t[3]>>

\* Flip UV for correct values
FlipUv(t) == <<t[1], 1 - t[2], t[3]>>

\* Mutant: the arms without texture write an empty UV buffer.
UvData_Empty(tier, o) ==
    IF tier = 3 THEN [k \in 1..Len(o.vertices) |-> FlipUv(o.vertices[k].texture)]
    ELSE <<>>

UvData(tier, o) ==
    IF tier = 3 THEN [k \in 1..Len(o.vertices) |-> FlipUv(o.vertices[k].texture)]
    ELSE Zeros(o)

\* The typed re-projection each arm asks for.
ObjNew(tier, r) ==
    CASE tier = 1 -> NewPosition(r)
      [] tier = 2 -> NewVertex(r)
      [] tier = 3 -> NewTexturedVertex(r)

----------------------------------------------------------------------------
(* The load context of one load_obj call. *)

NewContext == [default_asset |-> None, set_calls |-> 0]

\* load_context.set_default_asset(LoadedAsset::new(mesh))
set_default_asset(ctx, m) ==
    [default_asset |-> Some(m), set_calls |-> ctx.set_calls + 1]

----------------------------------------------------------------------------
(* Conversions of the same byte buffer per behaviour. *)

MaxRuns == 2

Outcome == [result |-> result, mesh |-> mesh, mesh0 |-> mesh0]

----------------------------------------------------------------------------
(* Initial state and actions. *)

Init ==
    /\ bytes \in Bytes
    /\ pc = "idle"
    /\ caller = "none"
    /\ raw = EmptyRaw
    /\ pnt = 3
    /\ i = 1
    /\ obj = NoObj
    /\ mesh = NewMesh
    /\ mesh0 = NewMesh
    /\ writes = <<>>
    /\ result = NoResult
    /\ load_context = NewContext
    /\ load_result = NoResult
    /\ prev = <<>>

\* Entering load_obj_from_bytes with mesh m.
Enter(who, m) ==
    /\ pc = "idle"
    /\ Len(prev) < MaxRuns
    /\ caller' = who
    /\ mesh' = m
    /\ mesh0' = m
    /\ raw' = EmptyRaw
    /\ pnt' = 3
    /\ i' = 1
    /\ obj' = NoObj
    /\ writes' = <<>>
    /\ result' = NoResult
    /\ pc' = "parse"
    /\ UNCHANGED <<bytes, prev>>

\* load_obj (loader.rs:36-41): a fresh mesh and the caller's load context.
LoadObj ==
    /\ Enter("load_obj", NewMesh)
    /\ load_context' = NewContext
    /\ load_result' = NoResult

\* load_obj_from_bytes called on a mesh the caller already holds.
CallFromBytes ==
    /\ \E m \in PriorMeshes \cup {mesh} : Enter("direct", m)
    /\ UNCHANGED <<load_context, load_result>>

\* let raw = obj::raw::parse_obj(bytes)?; let mut pnt = 3;
ParseObj ==
    /\ pc = "parse"
    /\ LET p == parse_obj(bytes)
       IN  IF p.ok
           THEN /\ raw' = p.raw
                /\ pnt' = 3
                /\ i' = 1
                /\ pc' = "classify"
                /\ UNCHANGED result
           ELSE /\ result' = Gltf(p.err)
                /\ pc' = "returned"
                /\ UNCHANGED <<raw, pnt, i>>
    /\ UNCHANGED <<bytes, caller, obj, mesh, mesh0, writes, load_context,
                   load_result, prev>>

\* One iteration of `for polygon in &raw.polygons`.
ClassifyStep ==
    /\ pc = "classify"
    /\ i <= Len(raw.polygons)
    /\ pnt' = MatchPolygon(pnt, raw.polygons[i])
    /\ i' = i + 1
    /\ UNCHANGED <<bytes, pc, caller, raw, obj, mesh, mesh0, writes, result,
                   load_context, load_result, prev>>

\* Mutant: the position slot is written from the raw positions before the
\* typed re-projection is asked for.
Dispatch_WriteFirst ==
    /\ pc = "classify"
    /\ i > Len(raw.polygons)
    /\ mesh' = set_position_data(mesh, raw.positions)
    /\ writes' = Append(writes, "position")
    /\ LET o == ObjNew(pnt, raw)
       IN  IF o.ok
           THEN /\ obj' = o
                /\ pc' = "set_position"
                /\ UNCHANGED result
           ELSE /\ result' = Gltf(o.err)
                /\ pc' = "returned"
                /\ UNCHANGED obj
    /\ UNCHANGED <<bytes, caller, raw, pnt, i, mesh0, load_context,
                   load_result, prev>>

\* match pnt { 1 | 2 | 3 => Obj::new(raw)?, _ => Err(UnknownVertexFormat) }
Dispatch ==
    /\ pc = "classify"
    /\ i > Len(raw.polygons)
    /\ IF pnt \in {1, 2, 3}
       THEN LET o == ObjNew(pnt, raw)
            IN  IF o.ok
                THEN /\ obj' = o
                     /\ pc' = "set_position"
                     /\ UNCHANGED result
                ELSE /\ result' = Gltf(o.err)
                     /\ pc' = "returned"
                     /\ UNCHANGED obj
       ELSE /\ result' = UnknownVertexFormat
            /\ pc' = "returned"
            /\ UNCHANGED obj
    /\ UNCHANGED <<bytes, caller, raw, pnt, i, mesh, mesh0, writes,
                   load_context, load_result, prev>>

SetPositionData ==
    /\ pc = "set_position"
    /\ mesh' = set_position_data(mesh, PositionData(pnt, obj))
    /\ writes' = Append(writes, "position")
    /\ pc' = "set_normal"
    /\ UNCHANGED <<bytes, caller, raw, pnt, i, obj, mesh0, result,
                   load_context, load_result, prev>>

SetNormalData ==
    /\ pc = "set_normal"
    /\ mesh' = set_normal_data(mesh, NormalData(pnt, obj))
    /\ writes' = Append(writes, "normal")
    /\ pc' = "set_uv"
    /\ UNCHANGED <<bytes, caller, raw, pnt, i, obj, mesh0, result,
                   load_context, load_result, prev>>

SetUvData ==
    /\ pc = "set_uv"
    /\ mesh' = set_uv_data(mesh, UvData(pnt, obj))
    /\ writes' = Append(writes, "uv")
    /\ pc' = "set_indices"
    /\ UNCHANGED <<bytes, caller, raw, pnt, i, obj, mesh0, result,
                   load_context, load_result, prev>>

\* set_mesh_indices(mesh, obj); then the function's final Ok(())
SetMeshIndices ==
    /\ pc = "set_indices"
    /\ mesh' = set_mesh_indices(mesh, obj)
    /\ writes' = Append(writes, "indices")
    /\ result' = Ok
    /\ pc' = "returned"
    /\ UNCHANGED <<bytes, caller, raw, pnt, i, obj, mesh0, load_context,
                   load_result, prev>>

\* Mutant: the result of load_obj_from_bytes is dropped and the mesh is
\* registered regardless.
LoadObjResume_IgnoreResult ==
    /\ pc = "returned"
    /\ caller = "load_obj"
    /\ load_context' = set_default_asset(load_context, mesh)
    /\ load_result' = Ok
    /\ prev' = Append(prev, Outcome)
    /\ pc' = "idle"
    /\ UNCHANGED <<bytes, caller, raw, pnt, i, obj, mesh, mesh0, writes, result>>

\* Back in load_obj (loader.rs:41-43): `?` returns the error, otherwise the
\* mesh is registered and load_obj returns Ok(()).
LoadObjResume ==
    /\ pc = "returned"
    /\ caller = "load_obj"
    /\ IF result.ok
       THEN /\ load_context' = set_default_asset(load_context, mesh)
            /\ load_result' = Ok
       ELSE /\ load_result' = result
            /\ UNCHANGED load_context
    /\ prev' = Append(prev, Outcome)
    /\ pc' = "idle"
    /\ UNCHANGED <<bytes, caller, raw, pnt, i, obj, mesh, mesh0, writes, result>>

\* Back in a caller that holds the mesh itself.
DirectReturn ==
    /\ pc = "returned"
    /\ caller = "direct"
    /\ prev' = Append(prev, Outcome)
    /\ pc' = "idle"
    /\ UNCHANGED <<bytes, caller, raw, pnt, i, obj, mesh, mesh0, writes, result,
                   load_context, load_result>>

Next ==
    \/ LoadObj
    \/ CallFromBytes
    \/ ParseObj
    \/ ClassifyStep
    \/ Dispatch
    \/ SetPositionData
    \/ SetNormalData
    \/ SetUvData
    \/ SetMeshIndices
    \/ LoadObjResume
    \/ DirectReturn

Spec == Init /\ [][Next]_vars

----------------------------------------------------------------------------
(* Vocabulary of the properties. *)

Polys == raw.polygons

ParseOk == parse_obj(bytes).ok

\* The classifier loop of the current call has scanned every record.
Scanned == caller # "none" /\ pc # "parse" /\ ParseOk /\ i > Len(Polys)

\* load_obj_from_bytes has returned in the current call.
Returned == result # NoResult

ReturnedOk == Returned /\ result.ok

HasKind(kind) == \E k \in 1..Len(Polys) : Polys[k].kind = kind

OnlyKind(kind) == \A k \in 1..Len(Polys) : Polys[k].kind = kind

AllTriangles == \A k \in 1..Len(Polys) : Len(Polys[k].v) = 3

\* The value a record contributes to the tier, as the specification words it.
Intrinsic(polygon) ==
    IF polygon.kind = "P" THEN 1 ELSE IF polygon.kind = "PN" THEN 2 ELSE 3

Least(S) == CHOOSE m \in S : \A x \in S : m <= x

Permuted(seq, f) == [k \in 1..Len(seq) |-> seq[f[k]]]

Data(slot) == slot[1]

AllZero(slot) ==
    /\ slot # None
    /\ \A k \in 1..Len(Data(slot)) : Data(slot)[k] = <<0, 0, 0>>

----------------------------------------------------------------------------
(* C1: the tier is the minimum of 3 and the records' values. *)

C1_Prefix ==
    (caller # "none" /\ pc # "parse" /\ ParseOk) =>
        pnt = Least({3} \cup {Intrinsic(Polys[k]) : k \in 1..(i - 1)})

C1_Order ==
    Scanned =>
        \A f \in Permutations(1..Len(Polys)) : Classify(Permuted(Polys, f)) = pnt

C1_Empty == (Scanned /\ Polys = <<>>) => pnt = 3

C1_NonIncreasing == (pc = "classify" /\ pc' = "classify") => pnt' <= pnt

\* C1: while scanning, the tier is the least of 3 and the values of the
\* records seen so far (1 for position-only, 2 for position+normal, 3
\* otherwise), so the final tier is that minimum over all records and 3 for an
\* empty sequence; a step of the scan never raises it; and scanning any
\* permutation of the records gives the same final tier.
C1_TierIsMinimum ==
    [](C1_Prefix /\ C1_Order /\ C1_Empty) /\ [][C1_NonIncreasing]_vars

\* A richer record scanned after a weaker one left the tier at the minimum.
C1_Witness ==
    /\ Scanned
    /\ Len(Polys) = 2
    /\ Polys[1].kind = "P"
    /\ Polys[2].kind = "PN"
    /\ pnt = 1

----------------------------------------------------------------------------
(* C2: one position-only polygon forces tier 1 and zeroed normal and UV. *)

\* C2: when the file holds a position-only polygon, whatever else it holds
\* and in whatever order, the tier after the scan is 1, and a conversion
\* that returns Ok has written a normal buffer and a UV buffer whose every
\* entry is [0,0,0].
C2_PositionOnlyZeroes ==
    HasKind("P") =>
        /\ Scanned => pnt = 1
        /\ ReturnedOk => AllZero(mesh.normal) /\ AllZero(mesh.uv)

\* A position-only face mixed with a fully textured face, converted.
C2_Witness ==
    /\ ReturnedOk
    /\ HasKind("P")
    /\ HasKind("PTN")
    /\ Len(Data(mesh.normal)) > 0

----------------------------------------------------------------------------
(* C3: fully textured files keep tier 3 and get their V coordinate flipped. *)

\* C3: when every polygon carries position, normal and texture, the tier
\* after the scan is 3, and after a conversion that returns Ok every vertex's
\* UV entry is (u, 1 - v, w) of its source texture coordinate (u, v, w) and
\* its position and normal entries are the source vertex's.
C3_FullTierFlipsV ==
    OnlyKind("PTN") =>
        /\ Scanned => pnt = 3
        /\ ReturnedOk =>
            /\ Len(Data(mesh.uv)) = Len(obj.vertices)
            /\ Len(Data(mesh.position)) = Len(obj.vertices)
            /\ Len(Data(mesh.normal)) = Len(obj.vertices)
            /\ \A k \in 1..Len(obj.vertices) :
                LET t == obj.vertices[k].texture
                IN  /\ Data(mesh.uv)[k][1] = t[1]
                    /\ Data(mesh.uv)[k][2] = 1 - t[2]
                    /\ Data(mesh.uv)[k][3] = t[3]
                    /\ Data(mesh.position)[k] = obj.vertices[k].position
                    /\ Data(mesh.normal)[k] = obj.vertices[k].normal

\* The single fully textured triangle with V coordinates 0, 1, 2.
C3_Witness ==
    /\ ReturnedOk
    /\ Len(Polys) = 1
    /\ OnlyKind("PTN")
    /\ mesh.indices = Some(<<0, 1, 2>>)
    /\ [k \in 1..3 |-> obj.vertices[k].texture[2]] = <<0, 1, 2>>
    /\ [k \in 1..3 |-> Data(mesh.uv)[k][2]] = <<1, 0, -1>>

----------------------------------------------------------------------------
(* C4: position+normal files get tier 2, zero UV and their own normals. *)

\* C4: when the file holds at least one polygon and all of them are
\* position+normal, the tier after the scan is 2, and after a conversion
\* that returns Ok every UV entry is [0,0,0] and the normal buffer is the
\* source vertices' normals, entry by entry.
C4_NormalTierPassesNormals ==
    (Polys # <<>> /\ OnlyKind("PN")) =>
        /\ Scanned => pnt = 2
        /\ ReturnedOk =>
            /\ AllZero(mesh.uv)
            /\ mesh.normal =
                   Some([k \in 1..Len(obj.vertices) |-> obj.vertices[k].normal])

\* Two position+normal triangles with different normals, converted.
C4_Witness ==
    /\ ReturnedOk
    /\ Len(Polys) = 2
    /\ OnlyKind("PN")
    /\ \E k \in 1..Len(obj.vertices) :
           Data(mesh.normal)[k] # Data(mesh.normal)[1]

----------------------------------------------------------------------------
(* C5: the shape of the four buffers after a successful conversion. *)

\* C5: after a conversion that returns Ok, at any tier, the position, normal
\* and UV buffers have the length of the typed vertex list, the index buffer
\* is the typed object's index list in order, its length is a multiple of 3,
\* and every index is a valid offset into the vertex buffers.
C5_BufferShape ==
    ReturnedOk =>
        /\ mesh.position # None /\ mesh.normal # None /\ mesh.uv # None
        /\ mesh.indices # None
        /\ Len(Data(mesh.position)) = Len(obj.vertices)
        /\ Len(Data(mesh.normal)) = Len(obj.vertices)
        /\ Len(Data(mesh.uv)) = Len(obj.vertices)
        /\ Data(mesh.indices) = obj.indices
        /\ Len(Data(mesh.indices)) % 3 = 0
        /\ \A k \in 1..Len(Data(mesh.indices)) :
               Data(mesh.indices)[k] \in 0..(Len(Data(mesh.position)) - 1)

\* Two triangles sharing vertices, converted at tier 2.
C5_Witness ==
    /\ ReturnedOk
    /\ pnt = 2
    /\ Len(Data(mesh.indices)) = 6
    /\ Len(Data(mesh.position)) < 6

----------------------------------------------------------------------------
(* C6: is the chosen tier valid for every face? *)

\* C6: when the raw parse succeeds and every face is a triangle, whatever
\* mix of the four variants the faces are, the conversion returns Ok.
C6_TierValidForEveryFace ==
    (Returned /\ ParseOk /\ AllTriangles) => result.ok

----------------------------------------------------------------------------
(* C7: a malformed buffer registers no mesh. *)

\* C7: in a load_obj call, set_default_asset has been called exactly once
\* with the converted mesh when load_obj_from_bytes returned Ok and load_obj
\* has returned, and never otherwise; when the raw parser rejects the bytes,
\* load_obj returns the wrapped parser error, not UnknownVertexFormat.
C7_RegisterOnlyOnOk ==
    caller = "load_obj" =>
        /\ IF pc = "idle" /\ result.ok
           THEN /\ load_context.set_calls = 1
                /\ load_context.default_asset = Some(mesh)
                /\ load_result = Ok
           ELSE /\ load_context.set_calls = 0
                /\ load_context.default_asset = None
        /\ (pc = "idle" /\ ~ParseOk) => load_result = Gltf(bytes.parse)

\* load_obj has returned on a buffer the raw parser rejects.
C7_Witness ==
    /\ caller = "load_obj"
    /\ pc = "idle"
    /\ ~ParseOk
    /\ load_result.variant = "Gltf"
    /\ load_context.set_calls = 0

----------------------------------------------------------------------------
(* C8: conversions of the same bytes agree, whatever the mesh held. *)

\* C8: any two completed conversions of the same byte buffer returned the
\* same result and, when that is Ok, left the same four buffers in the mesh,
\* whatever the mesh held when each began.
C8_SameBytesSameMesh ==
    \A a, b \in 1..Len(prev) :
        /\ prev[a].result = prev[b].result
        /\ prev[a].result.ok => prev[a].mesh = prev[b].mesh

\* Two successful conversions, one into a fresh mesh and one into a mesh
\* that held other data.
C8_Witness ==
    /\ Len(prev) >= 2
    /\ prev[1].result.ok
    /\ prev[1].mesh0 = NewMesh
    /\ prev[2].mesh0 = StaleMesh
    /\ Len(Data(prev[2].mesh.position)) > 0

----------------------------------------------------------------------------
(* C9: the fallback arm is dead. *)

\* C9: the tier is in {1,2,3} whenever the dispatch can run, and no
\* conversion returns UnknownVertexFormat.
C9_TierInRange ==
    /\ pnt \in {1, 2, 3}
    /\ result # UnknownVertexFormat
    /\ \A a \in 1..Len(prev) : prev[a].result # UnknownVertexFormat

\* The dispatch ran on a tier lowered twice.
C9_Witness ==
    /\ Returned
    /\ ParseOk
    /\ Len(Polys) = 2
    /\ Polys[1].kind = "PN"
    /\ Polys[2].kind = "P"

----------------------------------------------------------------------------
(* C10: the mesh is written completely or not at all. *)

\* C10: when load_obj_from_bytes has returned an error, it wrote no slot and
\* the mesh is as it was on entry; when it has returned Ok, it wrote the
\* four slots once each, in the order position, normal, UV, indices.
C10_AllOrNothing ==
    Returned =>
        IF result.ok
        THEN writes = <<"position", "normal", "uv", "indices">>
        ELSE writes = <<>> /\ mesh = mesh0

\* The typed re-projection failed on a mesh that held other data.
C10_Witness ==
    /\ Returned
    /\ result = Gltf("InsufficientData")
    /\ mesh0 = StaleMesh

====
